---- MODULE Spec2Model ----
(***************************************************************************)
(* Model of the ORB backtest engine of src/orb_system.py.                  *)
(*                                                                         *)
(* Prices, R multiples and ratios are fixed-point numbers with three       *)
(* decimals (1.5 is 1500, a price of 101.50 is 101500).  Dates are day     *)
(* numbers, a timestamp is <<date, hour, minute>>, and an optional value   *)
(* (Python's None) is the empty sequence, a present one a one-element      *)
(* sequence.  The bars of the input are revealed to the model at the       *)
(* moment backtest_symbol first reads them.                                *)
(***************************************************************************)
EXTENDS Integers, Sequences, FiniteSets, TLC

\* ------------------------------------------------------------------ bounds
MaxDays == 3
MaxDayBars == 8
MaxRecent == 6
MaxDates == 2
MaxTrades == 4
MaxTens == 9
MaxDaily == 4
MaxSymbols == 2

\* ---------------------------------------------------------- representation
Scale == 10 ^ 3
None == << >>
Some(x) == << x >>
Val(o) == o[1]

Abs(x) == IF x < 0 THEN -x ELSE x
Max2(a, b) == IF a >= b THEN a ELSE b
Min2(a, b) == IF a <= b THEN a ELSE b

\* ----------------------------------------------------------- configuration
ORB_BARS == 6
RISK_MULTIPLIER == 2000
RISK_PERCENT == 10
ACCOUNT_SIZE == 30000
VOL_CONFIRM_MULT == 1500
GAP_FILTER_PCT == 15
LATE_ENTRY_CUTOFF == << 11, 30 >>
MAX_DAILY_LOSS_R == -3000
ATR_PERIOD == 14
FALLBACK_SIZE == 100
SYMBOL == "SPY"
SYMBOLS == << "SPY", "QQQ", "AAPL", "NVDA", "TSLA" >>
INSAMPLE_RATIO == 700

\* ------------------------------------------------------------------ inputs
\* Daily closes the daily bar of a date can have: the closes of two
\* neighbouring dates differ.
Closes(date) == { 100000 + 10 * (date % 2) }

\* The daily bar of a date, when the provider has one.
DailyBar(date, c) == [ t |-> date, h |-> 101000, l |-> 99000, c |-> c ]

\* What the daily series holds for one date: nothing, or one bar.
DailyChoices(date) == { None } \cup { Some(DailyBar(date, c)) : c \in Closes(date) }

\* The daily bars before the first intraday date: two fewer than the ATR
\* needs, so that the daily bars of the intraday dates decide whether a date
\* has an ATR.
DailyHistory == [ k \in 1..(ATR_PERIOD - 1) |-> DailyBar(k - (ATR_PERIOD - 1), 100000) ]

\* Opening ranges: <<high, low, open>> of the first ORB_BARS bars.
OrbRanges == { << 102000, 100000, 101500 >>, << 102000, 100001, 101500 >>,
               << 101500, 101500, 101500 >>, << 102000, 100000, 101501 >> }

\* The first ORB_BARS bars of a day, five minutes apart from 09:30.
OrbBar(date, k, hi, lo, open) ==
    [ t |-> << date, 9, 30 + 5 * (k - 1) >>,
      o |-> open,
      h |-> IF k = 2 THEN hi ELSE Max2(hi - 400, open),
      l |-> IF k = 5 THEN lo ELSE Min2(lo + 400, open),
      v |-> 100 ]
OrbWindow(date, r) == [ k \in 1..ORB_BARS |-> OrbBar(date, k, r[1], r[2], r[3]) ]

\* Shapes <<high, low>> of the bars after the opening range.
BarShapes == { << 101500, 100500 >>, << 102000, 100000 >>,
               << 103000, 101000 >>, << 107000, 101000 >>,
               << 101000,  99000 >>, << 101000,  95000 >>,
               << 107000,  95000 >> }
Volumes == { 100, 180 }
Times == { << 10, 0 >>, << 11, 30 >>, << 11, 35 >> }

\* The symbols after the first have days of one length, one opening range
\* and confirming volumes only.
DayLengths(s) == IF s = 1 THEN (ORB_BARS + 1)..MaxDayBars ELSE { MaxDayBars }
RangesOf(s) == IF s = 1 THEN OrbRanges ELSE { << 102000, 100000, 101500 >> }
VolumesOf(s) == IF s = 1 THEN Volumes ELSE { 180 }

\* HH:MM strings compare as (hour, minute) pairs.
TimeLeq(a, b) == a[1] < b[1] \/ (a[1] = b[1] /\ a[2] <= b[2])
TimeLess(a, b) == TimeLeq(a, b) /\ a # b

\* ------------------------------------------------------------------- state
\* pc          where backtest_symbol stands: "day_start" (top of the loop over
\*             dates), "scan" (top of the loop over the day's bars), "done"
\* date_str    the date being processed (0 before the first)
\* nbars       len(day_bars) of the current date
\* day_bars    the bars of the current date read so far
\* prev_close, daily_r, position, entry, stop, target, trades: the locals
\* daily_list  the daily bars dated up to the current date
\* fn, args, ret  the function a run calls, its arguments and, once it has
\*             returned ("returned"), its result; a run of backtest_symbol
\*             keeps its result in trades
\* symbol_index  the place in SYMBOLS of the symbol the loop of main (line
\*             529) is at (0 before the first)
\* all_trades  main's list of the trades of the symbols handled so far
\* out         what main has done so far that can be seen from outside: the
\*             lines printed, the functions called, the files written
VARIABLES pc, date_str, nbars, day_bars, prev_close, daily_r, daily_list,
          position, entry, stop, target, trades, fn, args, ret,
          symbol_index, all_trades, out

vars == << pc, date_str, nbars, day_bars, prev_close, daily_r, daily_list,
           position, entry, stop, target, trades, fn, args, ret,
           symbol_index, all_trades, out >>

main_locals == << symbol_index, all_trades, out >>

locals == << date_str, nbars, day_bars, prev_close, daily_r, daily_list,
             position, entry, stop, target, trades >>

\* ----------------------------------------------------------------- filters
bar_time_et(t) == << t[2], t[3] >>

late_entry_filter(bar) == TimeLeq(bar_time_et(bar.t), LATE_ENTRY_CUTOFF)

gap_filter_mut(bars, pclose) ==
    IF pclose = None \/ Val(pclose) = 0 \/ bars = << >>
    THEN FALSE
    ELSE Abs(bars[1].o - Val(pclose)) * Scale < GAP_FILTER_PCT * Val(pclose)

gap_filter(bars, pclose) ==
    IF pclose = None \/ Val(pclose) = 0 \/ bars = << >>
    THEN FALSE
    ELSE Abs(bars[1].o - Val(pclose)) * Scale <= GAP_FILTER_PCT * Val(pclose)

RECURSIVE SumVol(_)
SumVol(s) == IF s = << >> THEN 0 ELSE s[1].v + SumVol(Tail(s))

\* s[-n:]
LastN(s, n) == IF Len(s) <= n THEN s ELSE SubSeq(s, Len(s) - n + 1, Len(s))

\* s[a:b] for 0 <= a <= b <= len(s)
Slice(s, a, b) == SubSeq(s, a + 1, b)

volume_confirmation_mut(breakout_bar, recent_bars) ==
    IF Len(recent_bars) < 3
    THEN TRUE
    ELSE breakout_bar.v * Len(recent_bars) * Scale
            >= SumVol(recent_bars) * VOL_CONFIRM_MULT

volume_confirmation(breakout_bar, recent_bars) ==
    IF Len(recent_bars) < 3
    THEN TRUE
    ELSE LET last5 == LastN(recent_bars, 5)
         IN  breakout_bar.v * Len(last5) * Scale >= SumVol(last5) * VOL_CONFIRM_MULT

\* ------------------------------------------------------------------ sizing
TrueRange(bars, k) ==
    Max2(bars[k].h - bars[k].l,
         Max2(Abs(bars[k].h - bars[k - 1].c), Abs(bars[k].l - bars[k - 1].c)))

RECURSIVE SumTR(_, _, _)
SumTR(bars, from, to) ==
    IF from > to THEN 0 ELSE TrueRange(bars, from) + SumTR(bars, from + 1, to)

\* The mean of the last `period` true ranges, as the fraction <<sum, period>>.
calculate_atr(daily_bars, period) ==
    IF Len(daily_bars) < period + 1
    THEN None
    ELSE Some(<< SumTR(daily_bars, Len(daily_bars) - period + 1, Len(daily_bars)),
                 period >>)

\* The integers round() can give for num/den (den > 0): the nearest one, and
\* on a tie the even one when the value is exact in binary, else either.
RoundSet(num, den, exact) ==
    LET q == num \div den
        r == num % den
    IN  IF 2 * r < den THEN { q }
        ELSE IF 2 * r > den THEN { q + 1 }
        ELSE IF exact THEN { IF q % 2 = 0 THEN q ELSE q + 1 }
        ELSE { q, q + 1 }

\* round(x, 2) of a three-decimal number x.
Round2(x) == { 10 * k : k \in RoundSet(x, 10, x % 125 = 0) }

\* round(risk_amount / atr, 2), three decimals; atr is <<sum, period>>.
position_size_atr(account_size, risk_percent, a) ==
    IF a = None \/ Val(a)[1] <= 0
    THEN { 0 }
    ELSE { 10 * k : k \in RoundSet(account_size * risk_percent * Val(a)[2] * 100,
                                    Val(a)[1], FALSE) }

past_daily_mut == daily_list

\* Line 219.
past_daily == SelectSeq(daily_list, LAMBDA b : b.t < date_str)

atr == IF Len(past_daily) >= 15 THEN calculate_atr(past_daily, ATR_PERIOD) ELSE None

Truthy(a) == a # None /\ Val(a)[1] # 0

size_mut == position_size_atr(ACCOUNT_SIZE, RISK_PERCENT, atr)

\* Line 221.
size == IF Truthy(atr)
        THEN position_size_atr(ACCOUNT_SIZE, RISK_PERCENT, atr)
        ELSE { FALLBACK_SIZE * Scale }

\* ----------------------------------------------------------- opening range
RECURSIVE MaxHigh(_)
MaxHigh(s) == IF Len(s) = 1 THEN s[1].h ELSE Max2(s[1].h, MaxHigh(Tail(s)))

RECURSIVE MinLow(_)
MinLow(s) == IF Len(s) = 1 THEN s[1].l ELSE Min2(s[1].l, MinLow(Tail(s)))

\* day_bars[:ORB_BARS]
OrbOf(bars) == Slice(bars, 0, Min2(ORB_BARS, Len(bars)))

orb == OrbOf(day_bars)
orb_high == MaxHigh(orb)
orb_low == MinLow(orb)
range_size == orb_high - orb_low

\* ------------------------------------------------------------ trade record
outcome_mut(r_mult) == IF r_mult > RISK_MULTIPLIER THEN "WIN" ELSE "LOSS"

outcome(r_mult) == IF r_mult > 0 THEN "WIN" ELSE "LOSS"

\* round(atr, 4) in units of 0.0001, or None.
RoundAtr(a) ==
    IF Truthy(a)
    THEN { Some(k) : k \in RoundSet(Val(a)[1] * 10, Val(a)[2], FALSE) }
    ELSE { None }

\* The records _trade_record can build: one per outcome of its roundings.
_trade_record(symbol, date, direction, e, s, t, r_mult, sz, a) ==
    { [ symbol |-> symbol, date |-> date, direction |-> direction,
        entry |-> re, stop |-> rs, target |-> rt, r_mult |-> rr,
        size |-> sz, atr |-> ra, outcome |-> outcome(r_mult) ] :
      re \in Round2(e), rs \in Round2(s), rt \in Round2(t),
      rr \in Round2(r_mult), ra \in RoundAtr(a) }

\* ---------------------------------------------------------- entry and exit
Entry_mut(pos, bar, recent, oh, ol) ==
    IF pos.position = "NONE" /\ bar.h > oh
    THEN IF volume_confirmation(bar, recent)
         THEN [ position |-> "LONG", entry |-> oh, stop |-> ol,
                target |-> oh + ((oh - ol) * RISK_MULTIPLIER) \div Scale ]
         ELSE pos
    ELSE IF pos.position = "NONE" /\ bar.l < ol
    THEN IF volume_confirmation(bar, recent)
         THEN [ position |-> "SHORT", entry |-> ol, stop |-> oh,
                target |-> oh - ((oh - ol) * RISK_MULTIPLIER) \div Scale ]
         ELSE pos
    ELSE pos

Entry_short_first_mut(pos, bar, recent, oh, ol) ==
    IF pos.position = "NONE" /\ bar.l < ol
    THEN IF volume_confirmation(bar, recent)
         THEN [ position |-> "SHORT", entry |-> ol, stop |-> oh,
                target |-> ol - ((oh - ol) * RISK_MULTIPLIER) \div Scale ]
         ELSE pos
    ELSE IF pos.position = "NONE" /\ bar.h > oh
    THEN IF volume_confirmation(bar, recent)
         THEN [ position |-> "LONG", entry |-> oh, stop |-> ol,
                target |-> oh + ((oh - ol) * RISK_MULTIPLIER) \div Scale ]
         ELSE pos
    ELSE pos

\* Lines 247-261: the position after the entry checks of one bar.
Entry(pos, bar, recent, oh, ol) ==
    IF pos.position = "NONE" /\ bar.h > oh
    THEN IF volume_confirmation(bar, recent)
         THEN [ position |-> "LONG", entry |-> oh, stop |-> ol,
                target |-> oh + ((oh - ol) * RISK_MULTIPLIER) \div Scale ]
         ELSE pos
    ELSE IF pos.position = "NONE" /\ bar.l < ol
    THEN IF volume_confirmation(bar, recent)
         THEN [ position |-> "SHORT", entry |-> ol, stop |-> oh,
                target |-> ol - ((oh - ol) * RISK_MULTIPLIER) \div Scale ]
         ELSE pos
    ELSE pos

Exit_strict_mut(pos, bar) ==
    IF pos.position = "LONG"
    THEN IF bar.l < pos.stop THEN Some(-Scale)
         ELSE IF bar.h >= pos.target THEN Some(RISK_MULTIPLIER)
         ELSE None
    ELSE IF pos.position = "SHORT"
    THEN IF bar.h > pos.stop THEN Some(-Scale)
         ELSE IF bar.l <= pos.target THEN Some(RISK_MULTIPLIER)
         ELSE None
    ELSE None

Exit_order_mut(pos, bar) ==
    IF pos.position = "LONG"
    THEN IF bar.h >= pos.target THEN Some(RISK_MULTIPLIER)
         ELSE IF bar.l <= pos.stop THEN Some(-Scale)
         ELSE None
    ELSE IF pos.position = "SHORT"
    THEN IF bar.l <= pos.target THEN Some(RISK_MULTIPLIER)
         ELSE IF bar.h >= pos.stop THEN Some(-Scale)
         ELSE None
    ELSE None

Exit_entry_mut(pos, bar) ==
    IF pos.position = "LONG"
    THEN IF bar.l <= pos.stop THEN Some(-Scale)
         ELSE IF bar.h >= pos.entry THEN Some(RISK_MULTIPLIER)
         ELSE None
    ELSE IF pos.position = "SHORT"
    THEN IF bar.h >= pos.stop THEN Some(-Scale)
         ELSE IF bar.l <= pos.entry THEN Some(RISK_MULTIPLIER)
         ELSE None
    ELSE None

\* Lines 263-298: the r_mult of the exit one bar gives the position, or None.
Exit(pos, bar) ==
    IF pos.position = "LONG"
    THEN IF bar.l <= pos.stop THEN Some(-Scale)
         ELSE IF bar.h >= pos.target THEN Some(RISK_MULTIPLIER)
         ELSE None
    ELSE IF pos.position = "SHORT"
    THEN IF bar.h >= pos.stop THEN Some(-Scale)
         ELSE IF bar.l <= pos.target THEN Some(RISK_MULTIPLIER)
         ELSE None
    ELSE None

\* ------------------------------------------------------------ daily closes
daily_closes_get_mut(dl, date, default) ==
    LET idx == { k \in 1..Len(dl) : dl[k].t = date }
    IN  IF idx = {} THEN None
        ELSE Some(dl[CHOOSE k \in idx : \A j \in idx : j <= k].c)

\* daily_closes.get(date, default) over the daily bars dl
daily_closes_get(dl, date, default) ==
    LET idx == { k \in 1..Len(dl) : dl[k].t = date }
    IN  IF idx = {} THEN default
        ELSE Some(dl[CHOOSE k \in idx : \A j \in idx : j <= k].c)

\* Line 210, 215, 230, 300: the date is over; its daily close, if the series
\* has one, becomes the previous close and the next date begins.
EndOfDay ==
    /\ daily_list' = daily_list
    /\ prev_close' = daily_closes_get(daily_list, date_str, prev_close)
    /\ pc' = "day_start"
    /\ nbars' = 0
    /\ day_bars' = << >>

\* ----------------------------------------------------------------- actions
\* The locals of backtest_symbol at lines 192-204, before the first date.
InitLocals ==
    /\ date_str = 0
    /\ nbars = 0
    /\ day_bars = << >>
    /\ prev_close = None
    /\ daily_r = [ dt \in 1..MaxDays |-> 0 ]
    /\ position = "NONE"
    /\ entry = 0
    /\ stop = 0
    /\ target = 0
    /\ trades = << >>

\* A run that is not one of main.
NoMain ==
    /\ symbol_index = 0
    /\ all_trades = << >>
    /\ out = << >>

\* A run of the calls of backtest_symbol that the loop of main makes (lines
\* 529-541), each over its own symbol's bars; the first call.
InitBacktest ==
    /\ fn = "backtest_symbol"
    /\ args = << >>
    /\ ret = None
    /\ pc = "day_start"
    /\ daily_list = DailyHistory
    /\ InitLocals
    /\ symbol_index = 1
    /\ all_trades = << >>
    /\ out = << >>

\* Lines 206-207: the next date of the intraday series and its bars; the
\* daily bar of the date, if the daily series has one, comes into view.
FetchDay(n, w) ==
    /\ pc = "day_start"
    /\ date_str < MaxDays
    /\ date_str' = date_str + 1
    /\ pc' = "day"
    /\ nbars' = n
    /\ day_bars' = w
    /\ \E reveal \in DailyChoices(date_str') :
          daily_list' = IF reveal = None THEN daily_list
                                         ELSE Append(daily_list, Val(reveal))
    /\ UNCHANGED << prev_close, daily_r, position, entry, stop,
                    target, trades, fn, args, ret, main_locals >>

DaySkipped_mut ==
    \/ nbars < ORB_BARS + 2
    \/ ~gap_filter(day_bars, prev_close)

\* Lines 209-231: is the date simulated?
DaySkipped ==
    \/ nbars < ORB_BARS + 2
    \/ ~gap_filter(day_bars, prev_close)
    \/ range_size <= 0

NewPosition_mut == [ position |-> position, entry |-> entry, stop |-> stop, target |-> target ]

\* Lines 233-234: the position a simulated date starts with.
NewPosition == [ position |-> "NONE", entry |-> 0, stop |-> 0, target |-> 0 ]

\* Lines 209-234: the checks of a date, up to the scan.
CheckDay ==
    /\ pc = "day"
    /\ UNCHANGED << date_str, daily_r, trades, fn, args, ret, main_locals >>
    /\ IF DaySkipped
       THEN /\ EndOfDay
            /\ UNCHANGED << position, entry, stop, target >>
       ELSE /\ pc' = "scan"
            /\ position' = NewPosition.position
            /\ entry' = NewPosition.entry
            /\ stop' = NewPosition.stop
            /\ target' = NewPosition.target
            /\ UNCHANGED << nbars, day_bars, prev_close, daily_list >>

\* Lines 236-237: the scan reads its next bar.
FetchBar(b) ==
    /\ pc = "scan"
    /\ pc' = "bar"
    /\ day_bars' = Append(day_bars, b)
    /\ UNCHANGED << date_str, nbars, prev_close, daily_r, daily_list,
                    position, entry, stop, target, trades, fn, args, ret, main_locals >>

\* The bar read last and, in Python's numbering, its index.
bar == day_bars[Len(day_bars)]
i == Len(day_bars) - 1

ScanStops_mut ==
    \/ daily_r[date_str] <= MAX_DAILY_LOSS_R
    \/ ~late_entry_filter(bar)

\* Lines 239-245: the scan stops before the entry checks.
ScanStops ==
    \/ daily_r[date_str] <= MAX_DAILY_LOSS_R
    \/ (position = "NONE" /\ ~late_entry_filter(bar))

ScanEnds_mut(x) == i + 1 >= nbars

ScanEnds_loss_mut(x) == x = Some(RISK_MULTIPLIER) \/ i + 1 >= nbars

exit_position_mut(pos0, pos1) == pos0

\* Lines 263-264, 282: the exit checks read the position the entry checks of
\* the same bar left (pos1), not the one the bar started with (pos0).
exit_position(pos0, pos1) == pos1

\* Lines 236, 272, 280, 290, 298: the scan ends after an exit (x is its
\* r_mult) and after the last bar of the date.
ScanEnds(x) == x # None \/ i + 1 >= nbars

\* Lines 239-300: one bar of the scan, and the end of the date when the scan
\* stops on it.
ProcessBar ==
    /\ pc = "bar"
    /\ UNCHANGED << date_str, fn, args, ret, main_locals >>
    /\ LET recent == Slice(day_bars, Max2(0, i - 5), i)
           pos0 == [ position |-> position, entry |-> entry,
                     stop |-> stop, target |-> target ]
           pos1 == Entry(pos0, bar, recent, orb_high, orb_low)
           x == Exit(exit_position(pos0, pos1), bar)
       IN  IF ScanStops
           THEN /\ EndOfDay
                /\ UNCHANGED << daily_r, position, entry, stop, target, trades >>
           ELSE /\ IF x # None
                   THEN /\ \E rec \in UNION { _trade_record(SYMBOLS[symbol_index], date_str,
                                    pos1.position, pos1.entry, pos1.stop,
                                    pos1.target, Val(x), sz, atr) : sz \in size } :
                               trades' = Append(trades, rec)
                        /\ daily_r' = [ daily_r EXCEPT ![date_str] = @ + Val(x) ]
                        /\ position' = "NONE"
                   ELSE /\ position' = pos1.position
                        /\ UNCHANGED << daily_r, trades >>
                /\ entry' = pos1.entry
                /\ stop' = pos1.stop
                /\ target' = pos1.target
                /\ IF ScanEnds(x)
                   THEN EndOfDay
                   ELSE /\ pc' = "scan"
                        /\ UNCHANGED << nbars, day_bars, prev_close, daily_list >>

\* Line 302: no date is left.
Return ==
    /\ pc = "day_start"
    /\ pc' = "done"
    /\ UNCHANGED << locals, fn, args, ret, main_locals >>

NextSymbol_mut ==
    /\ pc = "done"
    /\ fn = "backtest_symbol"
    /\ symbol_index < MaxSymbols
    /\ symbol_index' = symbol_index + 1
    /\ pc' = "day_start"
    /\ date_str' = 0
    /\ nbars' = 0
    /\ day_bars' = << >>
    /\ daily_list' = DailyHistory
    /\ position' = "NONE"
    /\ entry' = 0
    /\ stop' = 0
    /\ target' = 0
    /\ trades' = << >>
    /\ UNCHANGED << prev_close, daily_r, fn, args, ret, all_trades, out >>

\* Lines 529-540 and 192-204: main goes on to the next symbol and calls
\* backtest_symbol on its bars; the call starts from its own new locals and
\* its own daily series.
NextSymbol ==
    /\ pc = "done"
    /\ fn = "backtest_symbol"
    /\ symbol_index < MaxSymbols
    /\ symbol_index' = symbol_index + 1
    /\ pc' = "day_start"
    /\ date_str' = 0
    /\ nbars' = 0
    /\ day_bars' = << >>
    /\ prev_close' = None
    /\ daily_r' = [ dt \in 1..MaxDays |-> 0 ]
    /\ daily_list' = DailyHistory
    /\ position' = "NONE"
    /\ entry' = 0
    /\ stop' = 0
    /\ target' = 0
    /\ trades' = << >>
    /\ UNCHANGED << fn, args, ret, all_trades, out >>

\* The bars the scan can read after the bars read so far.
ScanBars ==
    { [ t |-> << date_str, tm[1], tm[2] >>, o |-> sh[2], h |-> sh[1], l |-> sh[2], v |-> vol ] :
      tm \in { x \in Times : TimeLess(bar_time_et(day_bars[Len(day_bars)].t), x) },
      sh \in BarShapes, vol \in VolumesOf(symbol_index) }

\* ------------------------------------------------- calls of pure functions
\* A bar of which only the volume is read.
VolBar(vol) == [ t |-> << 1, 9, 30 >>, o |-> 101500, h |-> 101500, l |-> 101500, v |-> vol ]

RECURSIVE SeqsUpTo(_, _)
SeqsUpTo(S, n) ==
    IF n = 0 THEN { << >> }
    ELSE LET shorter == SeqsUpTo(S, n - 1)
         IN  shorter \cup { Append(q, e) : q \in { x \in shorter : Len(x) = n - 1 }, e \in S }

\* volume_confirmation(breakout_bar, recent_bars) called on its own.
InitVolumeConfirmation ==
    /\ fn = "volume_confirmation"
    /\ args \in { << VolBar(vol), recent >> :
                  vol \in { 100, 149, 150 },
                  recent \in SeqsUpTo({ VolBar(100), VolBar(150) }, MaxRecent) }
    /\ ret = None
    /\ pc = "call"
    /\ daily_list = << >>
    /\ InitLocals
    /\ NoMain

CallVolumeConfirmation ==
    /\ pc = "call"
    /\ fn = "volume_confirmation"
    /\ ret' = Some(volume_confirmation(args[1], args[2]))
    /\ pc' = "returned"
    /\ UNCHANGED << locals, fn, args, main_locals >>

\* ------------------------------------------------ the cross-symbol pipeline
CORRELATION_PAIRS == << << "SPY", "QQQ" >> >>

\* The fields of a trade record that the functions after backtest_symbol
\* read.
TradeOf(symbol, date, r) == [ symbol |-> symbol, date |-> date, r_mult |-> r ]

\* The symbols that have data in a run of the pipeline.
TradedSymbols == SubSeq(SYMBOLS, 1, 3)

\* Lines 527-541: all_trades holds the trades of each symbol in the order of
\* SYMBOLS, each symbol's by ascending date and at most one per date; ch
\* gives the r_mult of the trade of symbol number s on date d, if any.
RECURSIVE TradesOfChoice(_, _, _)
TradesOfChoice(ch, s, d) ==
    IF s > Len(TradedSymbols) THEN << >>
    ELSE IF d > MaxDates THEN TradesOfChoice(ch, s + 1, 1)
    ELSE (IF ch[<< s, d >>] = None THEN << >>
          ELSE << TradeOf(TradedSymbols[s], d, Val(ch[<< s, d >>])) >>)
         \o TradesOfChoice(ch, s, d + 1)

AllTradesChoices ==
    [ (1..Len(TradedSymbols)) \X (1..MaxDates) ->
          { None, Some(-Scale), Some(RISK_MULTIPLIER) } ]

\* Lines 476-478: the keys of by_date, in the order of their first trade.
RECURSIVE by_date_keys(_)
by_date_keys(ts) ==
    IF ts = << >> THEN << >>
    ELSE LET before == by_date_keys(SubSeq(ts, 1, Len(ts) - 1))
             day == ts[Len(ts)].date
         IN  IF \E k \in 1..Len(before) : before[k] = day
             THEN before ELSE Append(before, day)

by_date(ts, day) == SelectSeq(ts, LAMBDA t : t.date = day)

symbols_today(day_trades) == { day_trades[k].symbol : k \in 1..Len(day_trades) }

\* next(t for t in day_trades if t["symbol"] == s)
next_of(day_trades, s) ==
    day_trades[CHOOSE k \in 1..Len(day_trades) :
                  /\ day_trades[k].symbol = s
                  /\ \A j \in 1..(k - 1) : day_trades[j].symbol # s]

drop_mut(s1, s2, t1, t2) == IF Abs(t1.r_mult) > Abs(t2.r_mult) THEN s2 ELSE s1

\* Line 488.
drop(s1, s2, t1, t2) == IF Abs(t1.r_mult) >= Abs(t2.r_mult) THEN s2 ELSE s1

\* Lines 482-489; pairs is the value of the module's CORRELATION_PAIRS.
skip(day, day_trades, pairs) ==
    { << day, drop(pairs[k][1], pairs[k][2],
                   next_of(day_trades, pairs[k][1]),
                   next_of(day_trades, pairs[k][2])) >> :
      k \in { j \in 1..Len(pairs) :
                 /\ pairs[j][1] \in symbols_today(day_trades)
                 /\ pairs[j][2] \in symbols_today(day_trades) } }

\* Lines 480-493, for the days from number k on.
RECURSIVE filtered(_, _, _, _)
filtered(ts, days, k, pairs) ==
    IF k > Len(days) THEN << >>
    ELSE LET day_trades == by_date(ts, days[k])
         IN  SelectSeq(day_trades,
                       LAMBDA t : << t.date, t.symbol >> \notin skip(days[k], day_trades, pairs))
             \o filtered(ts, days, k + 1, pairs)

\* The function reads the pairs from the module's CORRELATION_PAIRS (line
\* 483); they are a parameter here so that it can be run under other
\* declarations than the shipped one.
apply_correlation_filter(ts, pairs) ==
    filtered(ts, by_date_keys(ts), 1, pairs)

\* The declarations of correlated pairs a run is made under: the shipped
\* one, and two in which one symbol is in two pairs.
PairLists ==
    { CORRELATION_PAIRS,
      << << "SPY", "QQQ" >>, << "QQQ", "AAPL" >> >>,
      << << "SPY", "QQQ" >>, << "SPY", "AAPL" >> >> }

\* apply_correlation_filter(all_trades) called on the merged trade list,
\* with CORRELATION_PAIRS as args[2].
InitCorrelationFilter ==
    /\ fn = "apply_correlation_filter"
    /\ args \in { << TradesOfChoice(ch, 1, 1), pairs >> :
                   ch \in AllTradesChoices, pairs \in PairLists }
    /\ ret = None
    /\ pc = "call"
    /\ daily_list = << >>
    /\ InitLocals
    /\ NoMain

CallCorrelationFilter ==
    /\ pc = "call"
    /\ fn = "apply_correlation_filter"
    /\ ret' = Some(apply_correlation_filter(args[1], args[2]))
    /\ pc' = "returned"
    /\ UNCHANGED << locals, fn, args, main_locals >>

\* ------------------------------------------------------ walk-forward split
\* sorted(trades, key=lambda x: x["date"]): a stable sort; the trade at index
\* k moves behind the trades of earlier dates and the earlier trades of its
\* own date.
sorted_index(ts, k) ==
    Cardinality({ j \in 1..Len(ts) : ts[j].date < ts[k].date })
    + Cardinality({ j \in 1..k : ts[j].date = ts[k].date })

sorted(ts) ==
    [ p \in 1..Len(ts) |-> ts[CHOOSE k \in 1..Len(ts) : sorted_index(ts, k) = p] ]

\* The greatest power of two that is at most q, for q >= 1.
RECURSIVE Pow2Floor(_)
Pow2Floor(q) == IF q < 2 THEN 1 ELSE 2 * Pow2Floor(q \div 2)

\* Line 506: int(n * INSAMPLE_RATIO) in binary64 arithmetic.  The double
\* nearest to 0.70 is (7 * 2^53 - 4) / (10 * 2^53), so the exact product is
\* 7n/10 - (2n/5) / 2^53.  When 7n/10 is not an integer the rounded product
\* stays between the same two integers.  When it is an integer q, the
\* product lies (4q/7) / 2^53 below q and the doubles just below q are
\* 2 * Pow2Floor(q) / 2^53 apart: the product rounds to q when 4q/7 is less
\* than Pow2Floor(q), and to the double below q otherwise.
split(n) ==
    LET q == (n * INSAMPLE_RATIO) \div Scale
    IN  IF /\ n > 0
           /\ (n * INSAMPLE_RATIO) % Scale = 0
           /\ 4 * q > 7 * Pow2Floor(q)
        THEN q - 1 ELSE q

\* Lines 502-507: the pair (in-sample, out-of-sample).
walk_forward_split(ts) ==
    IF ts = << >> THEN << << >>, << >> >>
    ELSE LET sorted_trades == sorted(ts)
             sp == split(Len(sorted_trades))
         IN  << Slice(sorted_trades, 0, sp),
                Slice(sorted_trades, sp, Len(sorted_trades)) >>

\* Trade lists of a year of five symbols: n trades in no date order.
LongList(n) == [ k \in 1..n |-> TradeOf(SYMBOLS[(k % 5) + 1], ((37 * k) % 101) + 1,
                                        RISK_MULTIPLIER) ]

\* walk_forward_split(trades) called on its own: every short list over two
\* symbols, and long lists of 10, 20, ... trades.
InitWalkForward ==
    /\ fn = "walk_forward_split"
    /\ args \in { << ts >> :
                  ts \in SeqsUpTo({ TradeOf(sy, d, RISK_MULTIPLIER) :
                                    sy \in { "SPY", "QQQ" }, d \in 1..MaxDates },
                                  MaxTrades)
                         \cup { LongList(10 * k) : k \in 1..MaxTens } }
    /\ ret = None
    /\ pc = "call"
    /\ daily_list = << >>
    /\ InitLocals
    /\ NoMain

CallWalkForward ==
    /\ pc = "call"
    /\ fn = "walk_forward_split"
    /\ ret' = Some(walk_forward_split(args[1]))
    /\ pc' = "returned"
    /\ UNCHANGED << locals, fn, args, main_locals >>

\* -------------------------------------------------------------- statistics
\* A float that may be infinite.
Finite(x) == [ inf |-> FALSE, v |-> x ]
Infinity == [ inf |-> TRUE, v |-> 0 ]

\* The dict {} and d.get(key, default).
EmptyDict == [ k \in {} |-> k ]
dict_get(d, key, default) == IF key \in DOMAIN d THEN d[key] ELSE default

RECURSIVE sum(_)
sum(xs) == IF xs = << >> THEN 0 ELSE xs[1] + sum(Tail(xs))

\* Lines 330-332.
rs(ts) == [ k \in 1..Len(ts) |-> ts[k].r_mult ]
wins(r) == SelectSeq(r, LAMBDA x : x > 0)
losses(r) == SelectSeq(r, LAMBDA x : x <= 0)

RECURSIVE equity_from_mut(_, _)
equity_from_mut(r, running) ==
    IF r = << >> THEN << >>
    ELSE << r[1] >> \o equity_from_mut(Tail(r), running + r[1])

\* Lines 335-339: the loop that appends the running sum, from `running` on.
RECURSIVE equity_from(_, _)
equity_from(r, running) ==
    IF r = << >> THEN << >>
    ELSE << running + r[1] >> \o equity_from(Tail(r), running + r[1])

equity(r) == equity_from(r, 0)

RECURSIVE max_dd_peak_mut(_, _, _)
max_dd_peak_mut(eq, peak, max_dd) ==
    IF eq = << >> THEN max_dd
    ELSE max_dd_peak_mut(Tail(eq), peak, Min2(eq[1] - peak, max_dd))

RECURSIVE max_dd_last_mut(_, _, _)
max_dd_last_mut(eq, peak, max_dd) ==
    IF eq = << >> THEN max_dd
    ELSE max_dd_last_mut(Tail(eq), Max2(eq[1], peak), eq[1] - Max2(eq[1], peak))

\* Lines 344-349: the loop over the equity curve, from (peak, max_dd) on.
RECURSIVE max_dd_from(_, _, _)
max_dd_from(eq, peak, max_dd) ==
    IF eq = << >> THEN max_dd
    ELSE max_dd_from(Tail(eq), Max2(eq[1], peak),
                     Min2(eq[1] - Max2(eq[1], peak), max_dd))

\* Lines 342-349.
max_dd_of(eq) == max_dd_from(eq, 0, 0)

gross_loss_mut(l) == IF l # << >> THEN Abs(l[1]) ELSE Scale

\* Line 355.
gross_loss(l) == IF l # << >> THEN Abs(sum(l)) ELSE Scale

\* Lines 356 and 382: round(profit_factor, 2); round keeps an infinity.
profit_factor(gw, gl) ==
    IF gl # 0
    THEN { Finite(10 * k) : k \in RoundSet(gw * 100, gl, (8 * gw) % gl = 0) }
    ELSE { Infinity }

\* Lines 367-373, from (max_consec, cur_consec) on.
RECURSIVE max_consec_from(_, _, _)
max_consec_from(r, max_consec, cur_consec) ==
    IF r = << >> THEN max_consec
    ELSE IF r[1] < 0
         THEN max_consec_from(Tail(r), Max2(max_consec, cur_consec + 1), cur_consec + 1)
         ELSE max_consec_from(Tail(r), max_consec, 0)

\* round(mean(xs), 3) if xs else 0
mean3(xs) == IF xs = << >> THEN { 0 } ELSE RoundSet(sum(xs), Len(xs), FALSE)

\* Lines 325-388: what a call of compute_stats can do: the dict it returns,
\* the lines it prints, and the kinds of arithmetic it performs that fail on
\* no data.  The sharpe field (a square root) is not represented.
compute_stats(ts, label) ==
    IF ts = << >>
    THEN { [ result |-> EmptyDict,
             printed |-> << << "  No trades in {} sample", label >> >>,
             performed |-> {} ] }
    ELSE LET r == rs(ts)
         IN  { [ result |->
                   [ label |-> label,
                     trades |-> Len(r),
                     win_rate |-> wr,
                     avg_r |-> ar,
                     total_r |-> tr,
                     max_drawdown |-> dd,
                     profit_factor |-> pf,
                     avg_win |-> aw,
                     avg_loss |-> al,
                     max_consec_loss |-> max_consec_from(r, 0, 0),
                     equity_curve |-> equity(r) ],
                 printed |-> << >>,
                 performed |-> { "division", "mean" }
                               \cup (IF Len(r) > 1 THEN { "stdev" } ELSE {}) ] :
               wr \in { 100 * k : k \in RoundSet(Len(wins(r)) * Scale, Len(r), FALSE) },
               ar \in mean3(r),
               tr \in Round2(sum(r)),
               dd \in Round2(max_dd_of(equity(r))),
               pf \in profit_factor(sum(wins(r)), gross_loss(losses(r))),
               aw \in mean3(wins(r)),
               al \in mean3(losses(r)) }

\* compute_stats(trades, label) called on the trade list of a sample.
InitComputeStats ==
    /\ fn = "compute_stats"
    /\ args \in { << [ k \in 1..Len(r) |-> TradeOf(SYMBOL, k, r[k]) ], "ALL" >> :
                  r \in SeqsUpTo({ -Scale, RISK_MULTIPLIER }, MaxTrades) }
    /\ ret = None
    /\ pc = "call"
    /\ daily_list = << >>
    /\ InitLocals
    /\ NoMain

CallComputeStats ==
    /\ pc = "call"
    /\ fn = "compute_stats"
    /\ \E res \in compute_stats(args[1], args[2]) : ret' = Some(res)
    /\ pc' = "returned"
    /\ UNCHANGED << locals, fn, args, main_locals >>

\* ------------------------------------------------------- calculate_atr
\* Daily bars of three kinds: a quiet day, a gap up and a gap down.
AtrBars ==
    { [ t |-> 0, h |-> 101000, l |-> 99000, c |-> 100000 ],
      [ t |-> 0, h |-> 105000, l |-> 103000, c |-> 104000 ],
      [ t |-> 0, h |-> 98000, l |-> 97500, c |-> 97500 ] }

\* calculate_atr(daily_bars, period) called on its own.
InitCalculateAtr ==
    /\ fn = "calculate_atr"
    /\ args \in { << bars, period >> :
                  bars \in SeqsUpTo(AtrBars, MaxDaily), period \in 1..(MaxDaily - 1) }
    /\ ret = None
    /\ pc = "call"
    /\ daily_list = << >>
    /\ InitLocals
    /\ NoMain

CallCalculateAtr ==
    /\ pc = "call"
    /\ fn = "calculate_atr"
    /\ ret' = Some(calculate_atr(args[1], args[2]))
    /\ pc' = "returned"
    /\ UNCHANGED << locals, fn, args, main_locals >>

\* ---------------------------------------------------------------- main
\* The trade list a call of backtest_symbol returns for a symbol: at most
\* one trade per date, by ascending date; c gives the r_mult of each date's
\* trade, if any.
RECURSIVE SymbolTrades(_, _, _)
SymbolTrades(sy, c, d) ==
    IF d > MaxDates THEN << >>
    ELSE (IF c[d] = None THEN << >> ELSE << TradeOf(sy, d, Val(c[d])) >>)
         \o SymbolTrades(sy, c, d + 1)

\* What the provider has for one symbol: whether fetch_bars returns bars
\* for the 5Min and the 1Day series, and the trades backtest_symbol returns
\* for them.
NoData ==
    { [ bars_5min |-> b5, bars_daily |-> bd, trades |-> << >> ] :
      b5 \in BOOLEAN, bd \in { FALSE } }
    \cup { [ bars_5min |-> FALSE, bars_daily |-> TRUE, trades |-> << >> ] }

\* The r_mult of the trade of each date, if any, in a call's result.
Results == [ 1..MaxDates -> { None, Some(-Scale), Some(RISK_MULTIPLIER) } ]

WithData(sy, c) ==
    [ bars_5min |-> TRUE, bars_daily |-> TRUE, trades |-> SymbolTrades(sy, c, 1) ]

\* The data of a run: the first symbols may have data, the others have none.
MainData ==
    { [ s \in 1..Len(SYMBOLS) |->
          IF s > Len(TradedSymbols)
          THEN [ bars_5min |-> FALSE, bars_daily |-> FALSE, trades |-> << >> ]
          ELSE IF d[s][1] = "none" THEN d[s][2]
          ELSE WithData(SYMBOLS[s], d[s][2]) ] :
      d \in [ 1..Len(TradedSymbols) ->
                { << "none", k >> : k \in NoData }
                \cup { << "bars", c >> : c \in Results } ] }

\* A run of main; args[1] tells whether the API keys are set and args[2] is
\* the data of the run.
InitMain ==
    /\ fn = "main"
    /\ args \in { << TRUE, data >> : data \in MainData }
               \cup { << FALSE, CHOOSE data \in MainData : TRUE >> }
    /\ ret = None
    /\ pc = "main"
    /\ daily_list = << >>
    /\ InitLocals
    /\ NoMain

\* Lines 515-525: without the keys main prints an error and returns.
MainStart ==
    /\ pc = "main"
    /\ fn = "main"
    /\ IF ~args[1]
       THEN /\ out' = Append(out, << "print", "ERROR: Set APCA_API_KEY_ID and APCA_API_SECRET_KEY" >>)
            /\ pc' = "returned"
       ELSE /\ out' = Append(out, << "print", "INSTITUTIONAL ORB BACKTEST ENGINE" >>)
            /\ pc' = "symbols"
    /\ UNCHANGED << locals, fn, args, ret, symbol_index, all_trades >>

no_data_mut(d) == ~d.bars_5min /\ ~d.bars_daily

\* Line 535.
no_data(d) == ~d.bars_5min \/ ~d.bars_daily

\* Lines 529-541: one round of the loop over SYMBOLS.
MainSymbol ==
    /\ pc = "symbols"
    /\ fn = "main"
    /\ symbol_index < Len(SYMBOLS)
    /\ symbol_index' = symbol_index + 1
    /\ LET d == args[2][symbol_index']
       IN  IF no_data(d)
           THEN /\ out' = out \o << << "print", "Fetching", SYMBOLS[symbol_index'] >>,
                                    << "print", "Skipping", SYMBOLS[symbol_index'] >> >>
                /\ all_trades' = all_trades
           ELSE /\ out' = out \o << << "print", "Fetching", SYMBOLS[symbol_index'] >>,
                                    << "call", "backtest_symbol", SYMBOLS[symbol_index'] >>,
                                    << "print", "trades generated for", SYMBOLS[symbol_index'] >> >>
                /\ all_trades' = all_trades \o d.trades
    /\ UNCHANGED << pc, locals, fn, args, ret >>

\* Lines 407-422: print_stats reads stats["label"] first.
print_stats(stats) ==
    [ ev |-> IF "label" \in DOMAIN stats THEN << "print", "RESULTS", stats.label >>
             ELSE << "print", "RESULTS" >>,
      raises |-> "label" \notin DOMAIN stats ]

\* Lines 450-463: save_equity_curve reads s["label"] of every dict.
save_equity_curve(stats_list) ==
    [ ev |-> << "write", "equity_curve.csv" >>,
      raises |-> \E k \in 1..Len(stats_list) : "label" \notin DOMAIN stats_list[k] ]

\* Line 566.
overfit(stats_in, stats_out) ==
    dict_get(stats_out, "win_rate", 0) < dict_get(stats_in, "win_rate", 0) - 10 * Scale

Step(e) == [ ev |-> e, raises |-> FALSE ]

\* The lines a call of compute_stats printed.
Printed(s) == [ k \in 1..Len(s.printed) |-> Step(<< "print" >> \o s.printed[k]) ]

\* What is seen of a list of steps run in order: every step up to the first
\* that raises, and the exception in its place.
Executed(steps) ==
    LET bad == { k \in 1..Len(steps) : steps[k].raises }
        first == CHOOSE k \in bad : \A j \in bad : k <= j
    IN  IF bad = {} THEN [ k \in 1..Len(steps) |-> steps[k].ev ]
        ELSE [ k \in 1..first |-> IF k = first THEN << "raise", "KeyError" >>
                                               ELSE steps[k].ev ]

\* Lines 547-576: the steps of main once it has trades, for the statistics
\* s_all, s_in and s_out that compute_stats gives.
report_steps(ts, s_all, s_in, s_out) ==
    << Step(<< "call", "apply_correlation_filter" >>),
       Step(<< "call", "walk_forward_split" >>),
       Step(<< "call", "compute_stats", "FULL PERIOD" >>) >>
    \o Printed(s_all)
    \o << Step(<< "call", "compute_stats", "IN-SAMPLE (70%)" >>) >>
    \o Printed(s_in)
    \o << Step(<< "call", "compute_stats", "OUT-OF-SAMPLE (30%)" >>) >>
    \o Printed(s_out)
    \o <<
       print_stats(s_all.result),
       Step(<< "print", "MONTHLY BREAKDOWN" >>),
       print_stats(s_in.result),
       print_stats(s_out.result) >>
    \o (IF overfit(s_in.result, s_out.result)
        THEN << Step(<< "print", "WARNING" >>) >> ELSE << >>)
    \o (IF ts # << >> THEN << Step(<< "write", "trade_log.csv" >>) >> ELSE << >>)
    \o << save_equity_curve(<< s_in.result, s_out.result >>),
          Step(<< "print", "Done." >>) >>

no_trades_mut(ts) == FALSE

\* Line 543.
no_trades(ts) == ts = << >>

\* Lines 543-576: main after the loop over SYMBOLS.
MainReport ==
    /\ pc = "symbols"
    /\ fn = "main"
    /\ symbol_index = Len(SYMBOLS)
    /\ IF no_trades(all_trades)
       THEN /\ out' = Append(out, << "print", "No trades generated. Check API keys and date range." >>)
            /\ all_trades' = all_trades
            /\ pc' = "returned"
       ELSE LET ts == sorted(apply_correlation_filter(all_trades, CORRELATION_PAIRS))
                sp == walk_forward_split(ts)
            IN  \E s_all \in compute_stats(ts, "FULL PERIOD"),
                   s_in \in compute_stats(sp[1], "IN-SAMPLE (70%)"),
                   s_out \in compute_stats(sp[2], "OUT-OF-SAMPLE (30%)") :
                   LET steps == report_steps(ts, s_all, s_in, s_out)
                   IN  /\ out' = out \o Executed(steps)
                       /\ all_trades' = ts
                       /\ pc' = IF \E k \in 1..Len(steps) : steps[k].raises
                                THEN "raised" ELSE "returned"
    /\ UNCHANGED << locals, fn, args, ret, symbol_index >>

Init ==
    \/ InitMain
    \/ InitBacktest
    \/ InitVolumeConfirmation
    \/ InitCorrelationFilter
    \/ InitWalkForward
    \/ InitComputeStats
    \/ InitCalculateAtr

Next ==
    \/ \E n \in DayLengths(symbol_index), r \in RangesOf(symbol_index) :
          FetchDay(n, OrbWindow(date_str + 1, r))
    \/ CheckDay
    \/ /\ pc = "scan"
       /\ \E b \in ScanBars : FetchBar(b)
    \/ ProcessBar
    \/ Return
    \/ NextSymbol
    \/ MainStart
    \/ MainSymbol
    \/ MainReport
    \/ CallVolumeConfirmation
    \/ CallCorrelationFilter
    \/ CallWalkForward
    \/ CallComputeStats
    \/ CallCalculateAtr

Spec == Init /\ [][Next]_vars

\* ------------------------------------------------------------------ claims
InBacktest == fn = "backtest_symbol"

\* The indices of the trades of tr that are dated date.
TradesOn(tr, date) == { k \in 1..Len(tr) : tr[k].date = date }

\* C1: every trade record of backtest_symbol has r_mult -1 or RISK_MULTIPLIER,
\* and its outcome is WIN exactly when r_mult is RISK_MULTIPLIER and LOSS
\* exactly when r_mult is -1.
C1_RMultAndOutcome ==
    \A k \in 1..Len(trades) :
        /\ trades[k].r_mult \in { -Scale, RISK_MULTIPLIER }
        /\ trades[k].outcome = "WIN" <=> trades[k].r_mult = RISK_MULTIPLIER
        /\ trades[k].outcome = "LOSS" <=> trades[k].r_mult = -Scale

C1_Witness ==
    /\ pc = "done"
    /\ \E j, k \in 1..Len(trades) :
          trades[j].outcome = "WIN" /\ trades[k].outcome = "LOSS"

\* C2: the trade list of backtest_symbol holds at most one trade per date.
C2_OneTradePerDate ==
    \A j, k \in 1..Len(trades) : j # k => trades[j].date # trades[k].date

C2_Witness ==
    /\ pc = "done"
    /\ Len(trades) = 2
    /\ trades[1].date = 2
    /\ trades[2].date = 3

\* C3: at most one position is open at any bar, no entry happens while a
\* position is open, every simulated date starts FLAT, and a position still
\* open when the bars of a date end produces no trade and is not the
\* position of the next simulated date.
C3_OnePositionPerDay ==
    [][ /\ position' \in { "NONE", "LONG", "SHORT" }
        /\ (pc = "bar" /\ position # "NONE") =>
              /\ position' \in { position, "NONE" }
              /\ << entry', stop', target' >> = << entry, stop, target >>
        /\ (pc = "day" /\ pc' = "scan") =>
              << position', entry', stop', target' >> = << "NONE", 0, 0, 0 >>
        /\ (pc = "bar" /\ pc' = "day_start" /\ position' # "NONE") =>
              trades' = trades
      ]_vars

\* A date is about to be scanned while the position of the date before it,
\* never closed, is still in the locals.
C3_Witness ==
    /\ pc = "day"
    /\ position \in { "LONG", "SHORT" }
    /\ ~DaySkipped

\* ------------------------------------------- the claims' own vocabulary
\* The opening range of a date, from the bars themselves.
OrbHi(bars) ==
    CHOOSE x \in { bars[k].h : k \in 1..ORB_BARS } :
        \A k \in 1..ORB_BARS : bars[k].h <= x
OrbLo(bars) ==
    CHOOSE x \in { bars[k].l : k \in 1..ORB_BARS } :
        \A k \in 1..ORB_BARS : x <= bars[k].l
OrbRange(bars) == OrbHi(bars) - OrbLo(bars)
LongTarget(bars) == OrbHi(bars) + 2 * OrbRange(bars)
ShortTarget(bars) == OrbLo(bars) - 2 * OrbRange(bars)

\* The bar is at or before 11:30.
OnTime(b) == b.t[2] < 11 \/ (b.t[2] = 11 /\ b.t[3] <= 30)

RECURSIVE VolSum(_, _)
VolSum(bars, S) ==
    IF S = {} THEN 0
    ELSE LET k == CHOOSE x \in S : TRUE
         IN  bars[k].v + VolSum(bars, S \ { k })

\* Bar k of bars has at least 1.5 times the mean volume of the up to five
\* bars before it, or fewer than three bars are before it.
VolOK(bars, k) ==
    LET before == { j \in 1..(k - 1) : j >= k - 5 }
    IN  \/ Cardinality(before) < 3
        \/ 2 * bars[k].v * Cardinality(before) >= 3 * VolSum(bars, before)

\* The step appends exactly one trade, of the current date and the only one
\* of that date, with this direction, r_mult and outcome, and ends the date.
Resolved(dir, r, oc) ==
    /\ pc' = "day_start"
    /\ Len(trades') = Len(trades) + 1
    /\ SubSeq(trades', 1, Len(trades)) = trades
    /\ trades'[Len(trades')].date = date_str
    /\ trades'[Len(trades')].direction = dir
    /\ trades'[Len(trades')].r_mult = r
    /\ trades'[Len(trades')].outcome = oc
    /\ Cardinality(TradesOn(trades', date_str)) = 1

\* C4: with a LONG position open from an earlier bar, a bar that touches the
\* stop gives the date its one trade, LONG, r_mult -1, LOSS; a bar that
\* reaches the target without touching the stop gives it its one trade,
\* LONG, r_mult RISK_MULTIPLIER, WIN.  The same for SHORT, mirrored.
C4_FirstTouchDecides ==
    [][ pc = "bar" =>
          /\ (position = "LONG" /\ bar.l <= OrbLo(day_bars)) =>
                Resolved("LONG", -Scale, "LOSS")
          /\ (position = "LONG" /\ bar.l > OrbLo(day_bars)
                                /\ bar.h >= LongTarget(day_bars)) =>
                Resolved("LONG", RISK_MULTIPLIER, "WIN")
          /\ (position = "SHORT" /\ bar.h >= OrbHi(day_bars)) =>
                Resolved("SHORT", -Scale, "LOSS")
          /\ (position = "SHORT" /\ bar.h < OrbHi(day_bars)
                                 /\ bar.l <= ShortTarget(day_bars)) =>
                Resolved("SHORT", RISK_MULTIPLIER, "WIN")
      ]_vars

\* A bar after the entry bar reaches the target of the open LONG position
\* without touching its stop.
C4_Witness ==
    /\ pc = "bar"
    /\ position = "LONG"
    /\ bar.l > OrbLo(day_bars)
    /\ bar.h >= LongTarget(day_bars)

\* C5: on a bar where both exit conditions of the open position hold, exactly
\* one trade is recorded and it is the stop exit: r_mult -1, LOSS.
C5_StopBeforeTarget ==
    [][ pc = "bar" =>
          /\ (position = "LONG" /\ bar.l <= stop /\ bar.h >= target) =>
                Resolved("LONG", -Scale, "LOSS")
          /\ (position = "SHORT" /\ bar.h >= stop /\ bar.l <= target) =>
                Resolved("SHORT", -Scale, "LOSS")
      ]_vars

C5_Witness ==
    /\ pc = "bar"
    /\ position = "SHORT"
    /\ bar.h >= stop
    /\ bar.l <= target

\* The step opens a position of this direction: it is open after the step, or
\* the step's trade, entered and closed on the same bar, has it.
Enters(dir) ==
    /\ position = "NONE"
    /\ \/ position' = dir
       \/ /\ Len(trades') = Len(trades) + 1
          /\ trades'[Len(trades')].direction = dir

\* x rounded to two decimals is y.
IsRound2(x, y) == y % 10 = 0 /\ 2 * Abs(x - y) <= 10

\* The original C6: a FLAT bar enters LONG exactly when its high is above the
\* ORB high and the volume confirmation passes, and SHORT when its low is
\* below the ORB low and the volume confirmation passes; a trade's entry,
\* stop and target are the ORB high, the ORB low and entry + 2 * range (LONG),
\* or the ORB low, the ORB high and entry - 2 * range (SHORT).
C6_Original ==
    [][ (pc = "bar" /\ position = "NONE") =>
          /\ Enters("LONG") <=>
                (bar.h > OrbHi(day_bars) /\ VolOK(day_bars, Len(day_bars)))
          /\ (bar.l < OrbLo(day_bars) /\ VolOK(day_bars, Len(day_bars))) =>
                Enters("SHORT")
          /\ (Len(trades') = Len(trades) + 1
                /\ trades'[Len(trades')].direction = "LONG") =>
                /\ trades'[Len(trades')].entry = OrbHi(day_bars)
                /\ trades'[Len(trades')].stop = OrbLo(day_bars)
                /\ trades'[Len(trades')].target = LongTarget(day_bars)
          /\ (Len(trades') = Len(trades) + 1
                /\ trades'[Len(trades')].direction = "SHORT") =>
                /\ trades'[Len(trades')].entry = OrbLo(day_bars)
                /\ trades'[Len(trades')].stop = OrbHi(day_bars)
                /\ trades'[Len(trades')].target = ShortTarget(day_bars)
      ]_vars

\* C6 (amended): a FLAT bar at or before the late-entry cutoff enters LONG
\* exactly when its high is above the ORB high and the volume confirmation
\* passes, and SHORT exactly when its high is not above the ORB high, its low
\* is below the ORB low and the volume confirmation passes; the position
\* opened has entry, stop and target equal to the ORB high, the ORB low and
\* entry + 2 * range (LONG), or the ORB low, the ORB high and
\* entry - 2 * range (SHORT), and every trade records these three values
\* rounded to two decimals.
C6_EntryRule ==
    [][ pc = "bar" =>
          /\ (position = "NONE" /\ OnTime(bar)) =>
                /\ Enters("LONG") <=>
                      (bar.h > OrbHi(day_bars) /\ VolOK(day_bars, Len(day_bars)))
                /\ Enters("SHORT") <=>
                      (/\ bar.h <= OrbHi(day_bars)
                       /\ bar.l < OrbLo(day_bars)
                       /\ VolOK(day_bars, Len(day_bars)))
          /\ (position = "NONE" /\ ~OnTime(bar)) =>
                ~Enters("LONG") /\ ~Enters("SHORT")
          /\ (Enters("LONG") \/ (position = "LONG" /\ position' = "LONG")) =>
                /\ entry' = OrbHi(day_bars)
                /\ stop' = OrbLo(day_bars)
                /\ target' = LongTarget(day_bars)
          /\ (Enters("SHORT") \/ (position = "SHORT" /\ position' = "SHORT")) =>
                /\ entry' = OrbLo(day_bars)
                /\ stop' = OrbHi(day_bars)
                /\ target' = ShortTarget(day_bars)
          /\ (Len(trades') = Len(trades) + 1
                /\ trades'[Len(trades')].direction = "LONG") =>
                /\ IsRound2(OrbHi(day_bars), trades'[Len(trades')].entry)
                /\ IsRound2(OrbLo(day_bars), trades'[Len(trades')].stop)
                /\ IsRound2(LongTarget(day_bars), trades'[Len(trades')].target)
          /\ (Len(trades') = Len(trades) + 1
                /\ trades'[Len(trades')].direction = "SHORT") =>
                /\ IsRound2(OrbLo(day_bars), trades'[Len(trades')].entry)
                /\ IsRound2(OrbHi(day_bars), trades'[Len(trades')].stop)
                /\ IsRound2(ShortTarget(day_bars), trades'[Len(trades')].target)
      ]_vars

\* A FLAT bar before the cutoff breaks below an opening range whose low has a
\* third decimal, with confirmed volume.
C6_Witness ==
    /\ pc = "bar"
    /\ position = "NONE"
    /\ OnTime(bar)
    /\ bar.h <= OrbHi(day_bars)
    /\ bar.l < OrbLo(day_bars)
    /\ VolOK(day_bars, Len(day_bars))
    /\ OrbLo(day_bars) % 10 # 0

\* Bar k of a date's bars opens a position when it is read FLAT.
Triggers(bars, k) ==
    /\ OnTime(bars[k])
    /\ VolOK(bars, k)
    /\ (bars[k].h > OrbHi(bars) \/ bars[k].l < OrbLo(bars))

\* Bar j touches the stop or the target of the position bar k opens.
Touches(bars, k, j) ==
    IF bars[k].h > OrbHi(bars)
    THEN bars[j].l <= OrbLo(bars) \/ bars[j].h >= LongTarget(bars)
    ELSE bars[j].h >= OrbHi(bars) \/ bars[j].l <= ShortTarget(bars)

\* Some bar after the opening range opens a position, the first one that
\* does, and that bar or a later one touches its stop or its target.
DayResolves(bars) ==
    \E k \in (ORB_BARS + 1)..Len(bars) :
        /\ Triggers(bars, k)
        /\ \A m \in (ORB_BARS + 1)..(k - 1) : ~Triggers(bars, m)
        /\ \E j \in k..Len(bars) : Touches(bars, k, j)

\* C7: a date on which no bar after the opening range triggers an entry, or
\* on which the position entered has its stop and target touched by no bar up
\* to the end of the date's bars, contributes no trade.
C7_UnresolvedDayNoTrade ==
    [][ /\ (pc \in { "day", "scan", "bar" }) => TradesOn(trades, date_str) = {}
        /\ (pc = "bar" /\ pc' = "day_start" /\ ~DayResolves(day_bars)) =>
              /\ trades' = trades
              /\ TradesOn(trades', date_str) = {}
      ]_vars

\* The last bar of a date is read with a position open that no bar of the
\* date closes.
C7_Witness ==
    /\ pc = "bar"
    /\ Len(day_bars) = nbars
    /\ position \in { "LONG", "SHORT" }
    /\ ~DayResolves(day_bars)

\* The opening gap of the date against the previous close exceeds 1.5%.
GapExceeds == 200 * Abs(day_bars[1].o - Val(prev_close)) > 3 * Val(prev_close)

\* C8: a date whose opening gap exceeds GAP_FILTER_PCT, or that has no
\* previous close, produces no trade whatever its later bars are; a gap equal
\* to the threshold is allowed.
C8_GapFilter ==
    [][ /\ (pc = "day" /\ (prev_close = None \/ GapExceeds)) =>
              /\ pc' = "day_start"
              /\ trades' = trades
              /\ TradesOn(trades', date_str) = {}
        /\ (pc = "day" /\ prev_close # None /\ ~GapExceeds
                       /\ nbars >= ORB_BARS + 2
                       /\ OrbRange(day_bars) > 0) =>
              pc' = "scan"
        /\ (pc # "done" /\ trades' # trades) =>
              /\ pc = "bar"
              /\ Len(trades') = Len(trades) + 1
              /\ trades'[Len(trades')].date = date_str
        /\ pc # "done" => date_str' >= date_str
        /\ pc = "day_start" => date_str' # date_str \/ pc' = "done"
      ]_vars

\* A date with enough bars and a proper opening range opens 1.501% above the
\* previous close.
C8_Witness ==
    /\ pc = "day"
    /\ prev_close # None
    /\ GapExceeds
    /\ nbars >= ORB_BARS + 2
    /\ OrbRange(day_bars) > 0

\* The open position has its stop or its target touched by the bar.
StopOrTargetHit ==
    \/ position = "LONG" /\ (bar.l <= stop \/ bar.h >= target)
    \/ position = "SHORT" /\ (bar.h >= stop \/ bar.l <= target)

\* C9: no position is opened on a bar after LATE_ENTRY_CUTOFF, and a FLAT
\* date that reaches such a bar ends its scan there; a position opened at or
\* before the cutoff is still checked for stop and target on the bars after
\* the cutoff and produces its trade there.
C9_LateEntryCutoff ==
    [][ (pc = "bar" /\ ~OnTime(bar)) =>
          /\ position' # "NONE" => position' = position
          /\ position = "NONE" =>
                /\ pc' = "day_start"
                /\ trades' = trades
          /\ StopOrTargetHit =>
                /\ Len(trades') = Len(trades) + 1
                /\ trades'[Len(trades')].date = date_str
                /\ trades'[Len(trades')].direction = position
          /\ (position # "NONE" /\ ~StopOrTargetHit) =>
                /\ trades' = trades
                /\ position' = position
      ]_vars

\* A bar after the cutoff reaches the target of a LONG position opened before
\* the cutoff.
C9_Witness ==
    /\ pc = "bar"
    /\ ~OnTime(bar)
    /\ position = "LONG"
    /\ bar.l > stop
    /\ bar.h >= target

InList(t, ts) == \E k \in 1..Len(ts) : ts[k] = t

DateOrdered(ts) == \A j, k \in 1..Len(ts) : j < k => ts[j].date <= ts[k].date

\* The trades of ts dated d, in the order of ts.
Dated(ts, d) == SelectSeq(ts, LAMBDA t : t.date = d)

\* The list r is the list x stably sorted by date.
StablySorted(r, x) ==
    /\ Len(r) = Len(x)
    /\ DateOrdered(r)
    /\ \A k \in 1..Len(x) : Dated(r, x[k].date) = Dated(x, x[k].date)

\* The parts of C12 that do not depend on where the list is split.
C12_Partition ==
    (fn = "walk_forward_split" /\ pc = "returned") =>
        LET inSample == Val(ret)[1]
            outSample == Val(ret)[2]
        IN  /\ StablySorted(inSample \o outSample, args[1])
            /\ Len(inSample) + Len(outSample) = Len(args[1])
            /\ DateOrdered(inSample)
            /\ DateOrdered(outSample)
            /\ \A j \in 1..Len(inSample), k \in 1..Len(outSample) :
                   inSample[j].date <= outSample[k].date

\* C12: walk_forward_split on a trade list of length n returns (inSample,
\* outSample) where inSample followed by outSample is the input stably
\* sorted by date, len(inSample) = floor(n * INSAMPLE_RATIO), the lengths add
\* up to n, each part is in non-decreasing date order, and no in-sample date
\* is later than an out-of-sample date.
C12_Original ==
    /\ C12_Partition
    /\ (fn = "walk_forward_split" /\ pc = "returned") =>
           Len(Val(ret)[1]) * Scale <= Len(args[1]) * INSAMPLE_RATIO
           /\ Len(args[1]) * INSAMPLE_RATIO < (Len(Val(ret)[1]) + 1) * Scale

\* compute_stats has returned: its trade list, the dict it returned and the
\* equity curve read from it as save_equity_curve reads it.
StatsReturned == fn = "compute_stats" /\ pc = "returned"
StatsTrades == args[1]
Stats == Val(ret).result
Curve == dict_get(Stats, "equity_curve", << >>)

\* The sum of the r_mult of the trades of ts with an index in S.
RECURSIVE RSum(_, _)
RSum(ts, S) ==
    IF S = {} THEN 0
    ELSE LET k == CHOOSE j \in S : TRUE
         IN  ts[k].r_mult + RSum(ts, S \ { k })

MaxOf(S) == CHOOSE m \in S : \A x \in S : x <= m
MinOf(S) == CHOOSE m \in S : \A x \in S : m <= x

\* C13: the equity curve reported by compute_stats has one entry per trade,
\* entry i is r_1 + ... + r_i, its last entry is total R, and for the empty
\* list the curve is empty.
C13_EquityCurve ==
    StatsReturned =>
        /\ Len(Curve) = Len(StatsTrades)
        /\ \A n \in 1..Len(StatsTrades) : Curve[n] = RSum(StatsTrades, 1..n)
        /\ StatsTrades # << >> => Curve[Len(Curve)] = Stats.total_r
        /\ StatsTrades = << >> => Curve = << >>

\* The curve of a win, a loss and a win.
C13_Witness ==
    /\ StatsReturned
    /\ Len(StatsTrades) = 3
    /\ Curve = << 2000, 1000, 3000 >>
    /\ Stats.total_r = 3000

\* The running maximum of the curve up to entry n, and the same with the
\* starting equity 0 counted as a point of the curve.
RunningMax(c, n) == MaxOf({ c[j] : j \in 1..n })
RunningMax0(c, n) == MaxOf({ 0 } \cup { c[j] : j \in 1..n })

\* C14 as stated: the max drawdown of a non-empty list is the minimum over i
\* of the curve at i minus the running maximum of the curve up to i, and is
\* never greater than 0.
C14_Original ==
    (StatsReturned /\ StatsTrades # << >>) =>
        /\ Stats.max_drawdown =
              MinOf({ Curve[n] - RunningMax(Curve, n) : n \in 1..Len(Curve) })
        /\ Stats.max_drawdown <= 0

\* C14: the max drawdown of a non-empty list is the minimum over i of the
\* curve at i minus the running maximum of 0 and the curve up to i, and is
\* never greater than 0.
C14_MaxDrawdown ==
    (StatsReturned /\ StatsTrades # << >>) =>
        /\ Stats.max_drawdown =
              MinOf({ Curve[n] - RunningMax0(Curve, n) : n \in 1..Len(Curve) })
        /\ Stats.max_drawdown <= 0

\* A list that starts with a loss and then makes a new high and dips again.
C14_Witness ==
    /\ StatsReturned
    /\ Curve = << -1000, 1000, 0 >>
    /\ Stats.max_drawdown = -1000

NonDecreasing(c) == \A j, k \in 1..Len(c) : j < k => c[j] <= c[k]

\* C15 as stated: the max drawdown of a non-empty list is 0 exactly when the
\* equity curve is non-decreasing.
C15_Original ==
    (StatsReturned /\ StatsTrades # << >>) =>
        (Stats.max_drawdown = 0 <=> NonDecreasing(Curve))

\* C15: the max drawdown of a non-empty list is 0 exactly when the equity
\* curve is non-decreasing and its first entry is not below 0.
C15_ZeroDrawdown ==
    (StatsReturned /\ StatsTrades # << >>) =>
        (Stats.max_drawdown = 0 <=> (NonDecreasing(Curve) /\ Curve[1] >= 0))

\* A curve that never falls but starts below 0: the drawdown is not 0.
C15_Witness ==
    /\ StatsReturned
    /\ Curve = << -1000, 1000, 3000 >>
    /\ NonDecreasing(Curve)
    /\ Stats.max_drawdown = -1000

Positive(ts) == { k \in 1..Len(ts) : ts[k].r_mult > 0 }
Negative(ts) == { k \in 1..Len(ts) : ts[k].r_mult < 0 }

\* C16 as stated: with at least one losing trade the profit factor is the sum
\* of the positive r_mult divided by the absolute value of the sum of the
\* negative r_mult.
C16_Original ==
    (StatsReturned /\ Negative(StatsTrades) # {}) =>
        /\ ~Stats.profit_factor.inf
        /\ Stats.profit_factor.v * Abs(RSum(StatsTrades, Negative(StatsTrades)))
              = RSum(StatsTrades, Positive(StatsTrades)) * Scale

\* C16: with at least one losing trade the profit factor is the sum of the
\* positive r_mult divided by the absolute value of the sum of the negative
\* r_mult, rounded to two decimals.
C16_ProfitFactor ==
    (StatsReturned /\ Negative(StatsTrades) # {}) =>
        LET gw == RSum(StatsTrades, Positive(StatsTrades))
            gl == Abs(RSum(StatsTrades, Negative(StatsTrades)))
            pf == Stats.profit_factor
        IN  /\ ~pf.inf
            /\ pf.v % 10 = 0
            /\ Abs(pf.v * gl - gw * Scale) <= 5 * gl

\* One win against three losses: 2/3 is reported as 0.67.
C16_Witness ==
    /\ StatsReturned
    /\ Cardinality(Positive(StatsTrades)) = 1
    /\ Cardinality(Negative(StatsTrades)) = 3
    /\ Stats.profit_factor = Finite(670)

\* C17: for a non-empty list with no losing trade compute_stats reports the
\* profit factor as infinite, not as a finite number.
C17_Original ==
    (StatsReturned /\ StatsTrades # << >> /\ Negative(StatsTrades) = {}) =>
        Stats.profit_factor.inf

\* C18: compute_stats on an empty list performs no division and no mean or
\* stdev computation, and the result it returns carries a mark of 'no
\* trades' (at the least, the result has a field).
C18_Original ==
    (StatsReturned /\ StatsTrades = << >>) =>
        /\ Val(ret).performed = {}
        /\ DOMAIN Stats # {}

\* No bar of the date after the opening range breaks out of the range.
NoBreakout(bars) ==
    \A k \in (ORB_BARS + 1)..Len(bars) :
        bars[k].h <= OrbHi(bars) /\ bars[k].l >= OrbLo(bars)

\* The close of the daily bar dated d in dl, or else the default.
CloseOn(dl, d, default) ==
    IF \E k \in 1..Len(dl) : dl[k].t = d
    THEN Some((CHOOSE b \in { dl[k] : k \in 1..Len(dl) } : b.t = d).c)
    ELSE default

\* The step ends the current date without a trade and hands the next date
\* the trade list and the daily R unchanged and the previous close of the
\* current date.
LeavesDateUntraded ==
    /\ pc' = "day_start"
    /\ date_str' = date_str
    /\ trades' = trades
    /\ daily_r' = daily_r
    /\ prev_close' = CloseOn(daily_list', date_str, prev_close)

\* C19: a date whose opening range has range_size <= 0 produces no trade and
\* the run goes on from the state a date without a breakout leaves (the same
\* trade list, daily R and previous close) to the next date of the series,
\* if there is one.
C19_DegenerateRange ==
    [][ /\ (pc = "day" /\ OrbRange(day_bars) <= 0) => LeavesDateUntraded
        /\ (pc = "bar" /\ pc' = "day_start" /\ NoBreakout(day_bars)) =>
              LeavesDateUntraded
        /\ pc = "day_start" =>
              \/ pc' = "day" /\ date_str' = date_str + 1 /\ trades' = trades
              \/ pc' = "done" /\ trades' = trades
      ]_vars

\* The second date has a previous close, no gap and enough bars, and an
\* opening range of size 0, after a first date that was left without a trade.
C19_Witness ==
    /\ pc = "day"
    /\ date_str = 2
    /\ prev_close # None
    /\ ~GapExceeds
    /\ nbars >= ORB_BARS + 2
    /\ OrbRange(day_bars) = 0

\* The true range of the daily bar number k of bars (k > 1).
TR(bars, k) ==
    MaxOf({ bars[k].h - bars[k].l,
            Abs(bars[k].h - bars[k - 1].c),
            Abs(bars[k].l - bars[k - 1].c) })

RECURSIVE TRSum(_, _)
TRSum(bars, S) ==
    IF S = {} THEN 0
    ELSE LET k == CHOOSE x \in S : TRUE
         IN  TR(bars, k) + TRSum(bars, S \ { k })

\* The daily bars of daily_list dated before date d.
DailyBefore(d) == SelectSeq(daily_list, LAMBDA b : b.t < d)

\* C20: calculate_atr returns None exactly when it is given fewer than
\* period + 1 daily bars and otherwise the mean of the last `period` true
\* ranges; a trade of a date with fewer than ATR_PERIOD + 1 earlier daily
\* bars has no atr and the size FALLBACK_SIZE, and a trade of a date with a
\* positive ATR has the size (ACCOUNT_SIZE * RISK_PERCENT) / atr to two
\* decimals.
C20_AtrAndFallback ==
    /\ (fn = "calculate_atr" /\ pc = "returned") =>
          LET bars == args[1]
              period == args[2]
          IN  /\ Val(ret) = None <=> Len(bars) < period + 1
              /\ Val(ret) # None =>
                    Val(ret) = Some(<< TRSum(bars, (Len(bars) - period + 1)..Len(bars)),
                                       period >>)
    /\ \A k \in 1..Len(trades) :
          LET past == DailyBefore(trades[k].date)
              S == TRSum(past, (Len(past) - ATR_PERIOD + 1)..Len(past))
          IN  IF Len(past) < ATR_PERIOD + 1
              THEN /\ trades[k].atr = None
                   /\ trades[k].size = FALLBACK_SIZE * Scale
              ELSE S > 0 =>
                   /\ trades[k].atr # None
                   /\ 2 * Abs((trades[k].size \div 10) * S
                              - ACCOUNT_SIZE * RISK_PERCENT * ATR_PERIOD * 100) <= S

\* A run with a trade on a date without an ATR, sized 100, and a trade on a
\* date with an ATR.
C20_Witness ==
    /\ pc = "done"
    /\ \E j, k \in 1..Len(trades) :
          /\ trades[j].atr = None
          /\ trades[j].size = 100000
          /\ trades[k].atr # None
          /\ trades[k].size = 150000

\* The bar read FLAT opens a LONG, or a SHORT, position.
LongTrigger ==
    /\ position = "NONE"
    /\ OnTime(bar)
    /\ VolOK(day_bars, Len(day_bars))
    /\ bar.h > OrbHi(day_bars)
ShortTrigger ==
    /\ position = "NONE"
    /\ OnTime(bar)
    /\ VolOK(day_bars, Len(day_bars))
    /\ bar.h <= OrbHi(day_bars)
    /\ bar.l < OrbLo(day_bars)

\* C25: the exit checks run on the entry bar: a bar that opens a LONG
\* position and has low <= ORB low closes it as LOSS -1, one that has high >=
\* target and low > stop closes it as WIN; a bar that opens a SHORT position
\* and has high >= ORB high closes it as LOSS -1, one that has low <= target
\* and high < stop closes it as WIN.
C25_ExitOnEntryBar ==
    [][ pc = "bar" =>
          /\ (LongTrigger /\ bar.l <= OrbLo(day_bars)) =>
                Resolved("LONG", -Scale, "LOSS")
          /\ (LongTrigger /\ bar.l > OrbLo(day_bars)
                          /\ bar.h >= LongTarget(day_bars)) =>
                Resolved("LONG", RISK_MULTIPLIER, "WIN")
          /\ (ShortTrigger /\ bar.h >= OrbHi(day_bars)) =>
                Resolved("SHORT", -Scale, "LOSS")
          /\ (ShortTrigger /\ bar.h < OrbHi(day_bars)
                           /\ bar.l <= ShortTarget(day_bars)) =>
                Resolved("SHORT", RISK_MULTIPLIER, "WIN")
      ]_vars

\* A bar read FLAT breaks below the opening range with its high on the ORB
\* high: it opens a SHORT position and touches its stop.
C25_Witness ==
    /\ pc = "bar"
    /\ ShortTrigger
    /\ bar.h = OrbHi(day_bars)

\* C26: a bar read FLAT with high > ORB high, low < ORB low and confirmed
\* volume enters LONG and not SHORT; a SHORT entry happens only on a bar
\* whose high does not exceed the ORB high.
C26_LongBeforeShort ==
    [][ pc = "bar" =>
          /\ (LongTrigger /\ bar.l < OrbLo(day_bars)) =>
                Enters("LONG") /\ ~Enters("SHORT")
          /\ Enters("SHORT") => bar.h <= OrbHi(day_bars)
      ]_vars

\* A bar read FLAT before the cutoff breaks out of both sides of the range
\* with confirmed volume.
C26_Witness ==
    /\ pc = "bar"
    /\ LongTrigger
    /\ bar.l < OrbLo(day_bars)

\* C27: at every circuit-breaker check the daily R of the date is 0, so the
\* check never holds: a scan that ends without a trade ends on a FLAT bar
\* after the cutoff or on the last bar of the date, and a bar that triggers
\* an entry is never refused.
C27_BreakerNeverFires ==
    [][ pc = "bar" =>
          /\ daily_r[date_str] = 0
          /\ daily_r[date_str] > MAX_DAILY_LOSS_R
          /\ (pc' = "day_start" /\ trades' = trades) =>
                \/ position = "NONE" /\ ~OnTime(bar)
                \/ Len(day_bars) = nbars
          /\ (LongTrigger \/ ShortTrigger) =>
                Enters("LONG") \/ Enters("SHORT")
      ]_vars

\* The check is reached on a date after a date that lost 1 R.
C27_Witness ==
    /\ pc = "bar"
    /\ \E d \in 1..MaxDays : d # date_str /\ daily_r[d] = -Scale
    /\ daily_r[date_str] = 0

\* The close of the daily bar of the latest intraday date before d that has
\* a daily bar, if there is one.
PrevCloseAt(d) ==
    LET S == { k \in 1..Len(daily_list) : daily_list[k].t \in 1..(d - 1) }
    IN  IF S = {} THEN None
        ELSE Some(daily_list[CHOOSE k \in S :
                     \A j \in S : daily_list[j].t <= daily_list[k].t].c)

\* C28: while date d is processed the previous close is the daily close of
\* the most recent earlier intraday date that has a daily bar, however the
\* earlier dates ended (too few bars, gap, degenerate range, scanned); once
\* d is over it is that of the most recent date up to d; on the first date
\* it is absent, and no trade is dated to the first date.
C28_PreviousClose ==
    InBacktest =>
       /\ pc \in { "day", "scan", "bar" } => prev_close = PrevCloseAt(date_str)
       /\ pc \in { "day_start", "done" } => prev_close = PrevCloseAt(date_str + 1)
       /\ (date_str = 1 /\ pc \in { "day", "scan", "bar" }) => prev_close = None
       /\ TradesOn(trades, 1) = {}

\* The third date is scanned with the close of the first date as previous
\* close, the second date having no daily bar and no trade.
C28_Witness ==
    /\ pc = "bar"
    /\ date_str = 3
    /\ trades = << >>
    /\ (\E k \in 1..Len(daily_list) : daily_list[k].t = 1)
    /\ ~(\E k \in 1..Len(daily_list) : daily_list[k].t = 2)
    /\ prev_close = Some(100010)

\* The <<atr, size>> a trade can record when the daily bars before its date
\* are past.
SizingFrom(past) ==
    LET S == TRSum(past, (Len(past) - ATR_PERIOD + 1)..Len(past))
    IN  IF Len(past) < ATR_PERIOD + 1 \/ S = 0
        THEN { << None, FALLBACK_SIZE * Scale >> }
        ELSE { << Some(a), 10 * z >> :
               a \in RoundSet(S * 10, ATR_PERIOD, FALSE),
               z \in RoundSet(ACCOUNT_SIZE * RISK_PERCENT * ATR_PERIOD * 100, S, FALSE) }

\* C29: the atr and the size of a trade dated d are those of the daily bars
\* dated before d, whatever daily bars dated d or later the series has.
C29_NoLookAhead ==
    InBacktest =>
       \A k \in 1..Len(trades) :
          << trades[k].atr, trades[k].size >> \in SizingFrom(DailyBefore(trades[k].date))

\* A trade of the second date without an ATR although the series has a
\* daily bar for the second date, which with those before it would give one,
\* and a trade of the third date with an ATR and a daily bar for the third
\* date.
C29_Witness ==
    /\ pc = "done"
    /\ \E j, k \in 1..Len(trades) :
          /\ trades[j].date = 2
          /\ trades[j].atr = None
          /\ trades[k].date = 3
          /\ trades[k].atr = Some(20000)
    /\ \A d \in 1..3 : \E j \in 1..Len(daily_list) : daily_list[j].t = d

\* The symbols of the declared pairs.
Paired(pairs) == UNION { { pairs[p][1], pairs[p][2] } : p \in 1..Len(pairs) }

\* C30 as stated: under any declaration of pairs, for every pair and every
\* date on which both members have a trade the output holds the trade of
\* exactly one of the two, and every trade of a symbol that is in no pair is
\* in the output.
C30_Original ==
    (fn = "apply_correlation_filter" /\ pc = "returned") =>
        LET pairs == args[2]
        IN  /\ \A p \in 1..Len(pairs), a, b \in 1..Len(args[1]) :
                  LET t1 == args[1][a]
                      t2 == args[1][b]
                  IN  (/\ t1.symbol = pairs[p][1]
                       /\ t2.symbol = pairs[p][2]
                       /\ t1.date = t2.date) =>
                          InList(t1, Val(ret)) # InList(t2, Val(ret))
            /\ \A a \in 1..Len(args[1]) :
                  args[1][a].symbol \notin Paired(pairs) => InList(args[1][a], Val(ret))

\* What holds of the filter under every declaration: of the two members of
\* a pair that both trade on a date the output never holds both, it holds
\* one when no other pair shares a symbol with the pair, and the trades of
\* the symbols in no pair are all in the output.
C30_AtMostOne ==
    (fn = "apply_correlation_filter" /\ pc = "returned") =>
        LET pairs == args[2]
        IN  /\ \A p \in 1..Len(pairs), a, b \in 1..Len(args[1]) :
                  LET t1 == args[1][a]
                      t2 == args[1][b]
                  IN  (/\ t1.symbol = pairs[p][1]
                       /\ t2.symbol = pairs[p][2]
                       /\ t1.date = t2.date) =>
                          /\ ~(InList(t1, Val(ret)) /\ InList(t2, Val(ret)))
                          /\ (\A q \in 1..Len(pairs) :
                                q # p => { pairs[q][1], pairs[q][2] }
                                           \cap { pairs[p][1], pairs[p][2] } = {})
                                => (InList(t1, Val(ret)) \/ InList(t2, Val(ret)))
            /\ \A a \in 1..Len(args[1]) :
                  args[1][a].symbol \notin Paired(pairs) => InList(args[1][a], Val(ret))

\* C24: a call of backtest_symbol starts from the locals of a first call
\* whatever the calls for the symbols before it left (trade list, previous
\* close, daily R, position, daily series), and all through a call the trade
\* list holds trades of the call's own symbol only, the daily R of each date
\* is the sum of the call's own trades of that date, and the previous close
\* is a close of the call's own daily series.
C24_CallsShareNothing ==
    [][ InBacktest =>
          /\ (pc = "done" /\ pc' = "day_start") =>
                /\ symbol_index' = symbol_index + 1
                /\ trades' = << >>
                /\ prev_close' = None
                /\ daily_r' = [ dt \in 1..MaxDays |-> 0 ]
                /\ position' = "NONE"
                /\ date_str' = 0
                /\ daily_list' = DailyHistory
          /\ \A k \in 1..Len(trades') : trades'[k].symbol = SYMBOLS[symbol_index']
          /\ \A d \in 1..MaxDays : daily_r'[d] = RSum(trades', TradesOn(trades', d))
          /\ pc' \in { "day", "scan", "bar" } => prev_close' = PrevCloseAt(date_str')
      ]_vars

\* The second symbol's call has a trade on its second date and is scanning
\* its third, with QQQ as the symbol of the trade.
C24_Witness ==
    /\ InBacktest
    /\ symbol_index = 2
    /\ pc = "bar"
    /\ date_str = 3
    /\ Len(trades) = 1
    /\ trades[1].symbol = "QQQ"
    /\ trades[1].date = 2
    /\ daily_r[2] = -Scale

InMain == fn = "main"

\* The event e is in the list of events es.
Has(e, es) == \E k \in 1..Len(es) : es[k] = e

\* The trades of the symbols from number s on whose two series both have
\* bars, in the order of SYMBOLS.
RECURSIVE TradesOfData(_, _)
TradesOfData(data, s) ==
    IF s > Len(SYMBOLS) THEN << >>
    ELSE (IF data[s].bars_5min /\ data[s].bars_daily THEN data[s].trades ELSE << >>)
         \o TradesOfData(data, s + 1)

\* C21: in a round of main's loop a symbol whose 5Min or 1Day series is
\* empty is skipped without a call of backtest_symbol and the loop goes on;
\* a symbol with both series is simulated and its trades are appended; after
\* the last round every symbol with data has been simulated and the trade
\* list is the concatenation of the trades of the symbols with data.
C21_SkipSymbolWithoutData ==
    [][ (InMain /\ pc = "symbols") =>
          /\ symbol_index' = symbol_index + 1 =>
                LET d == args[2][symbol_index']
                    called == << "call", "backtest_symbol", SYMBOLS[symbol_index'] >>
                IN  /\ (~d.bars_5min \/ ~d.bars_daily) =>
                          /\ ~Has(called, out')
                          /\ all_trades' = all_trades
                          /\ pc' = "symbols"
                    /\ (d.bars_5min /\ d.bars_daily) =>
                          /\ Has(called, out')
                          /\ all_trades' = all_trades \o d.trades
          /\ symbol_index = Len(SYMBOLS) =>
                /\ all_trades = TradesOfData(args[2], 1)
                /\ \A s \in 1..Len(SYMBOLS) :
                      Has(<< "call", "backtest_symbol", SYMBOLS[s] >>, out)
                      <=> (args[2][s].bars_5min /\ args[2][s].bars_daily)
      ]_vars

\* The loop is over: SPY and AAPL had data and trades, QQQ between them had
\* 5Min bars but no daily bars, and the trade list is SPY's trades followed
\* by AAPL's.
C21_Witness ==
    /\ InMain
    /\ pc = "symbols"
    /\ symbol_index = Len(SYMBOLS)
    /\ args[2][1].trades # << >>
    /\ args[2][2].bars_5min /\ ~args[2][2].bars_daily
    /\ args[2][3].trades # << >>
    /\ all_trades = args[2][1].trades \o args[2][3].trades

\* main has ended, returning or raising.
MainEnded == InMain /\ pc \in { "returned", "raised" } /\ args[1]

\* C22: when no symbol produced a trade, main ends by printing the
\* no-trades line, and has neither called apply_correlation_filter,
\* walk_forward_split or compute_stats nor printed statistics nor written a
\* file.
C22_NoTrades ==
    (MainEnded /\ TradesOfData(args[2], 1) = << >>) =>
        /\ pc = "returned"
        /\ out[Len(out)] = << "print", "No trades generated. Check API keys and date range." >>
        /\ \A k \in 1..Len(out) :
              /\ out[k][1] # "write"
              /\ out[k][1] # "raise"
              /\ out[k][1] = "call" => out[k][2] = "backtest_symbol"
              /\ out[k][2] \notin { "RESULTS", "MONTHLY BREAKDOWN", "Done." }

\* main has ended after a run in which SPY was simulated and gave no trade
\* and QQQ was skipped.
C22_Witness ==
    /\ MainEnded
    /\ TradesOfData(args[2], 1) = << >>
    /\ Has(<< "call", "backtest_symbol", "SPY" >>, out)
    /\ Has(<< "print", "Skipping", "QQQ" >>, out)

\* main printed the three statistics, wrote the two files and reached Done.
Completes ==
    /\ pc = "returned"
    /\ Has(<< "print", "RESULTS", "FULL PERIOD" >>, out)
    /\ Has(<< "print", "RESULTS", "IN-SAMPLE (70%)" >>, out)
    /\ Has(<< "print", "RESULTS", "OUT-OF-SAMPLE (30%)" >>, out)
    /\ Has(<< "write", "trade_log.csv" >>, out)
    /\ Has(<< "write", "equity_curve.csv" >>, out)
    /\ out[Len(out)] = << "print", "Done." >>

\* The trades that survive the correlation filter in a run of main.
Survivors == apply_correlation_filter(TradesOfData(args[2], 1), CORRELATION_PAIRS)

\* C23 as stated: a run in which n >= 1 trades survive the correlation
\* filter prints the full-period, in-sample and out-of-sample statistics,
\* writes the trade log and the equity curve and reaches Done without
\* raising.
C23_Original ==
    (MainEnded /\ Len(Survivors) >= 1) => Completes

\* With two or more surviving trades main completes, and with exactly one
\* it raises after the full-period statistics and the monthly breakdown.
C23_TwoOrMore ==
    /\ (MainEnded /\ Len(Survivors) >= 2) => Completes
    /\ (MainEnded /\ Len(Survivors) = 1) =>
          /\ pc = "raised"
          /\ out[Len(out)] = << "raise", "KeyError" >>
          /\ Has(<< "print", "RESULTS", "FULL PERIOD" >>, out)
          /\ ~Has(<< "write", "trade_log.csv" >>, out)

====
